---- MODULE Spec2Model ----
(***************************************************************************)
(* qdials: the idle auto-link scrubber.                                    *)
(*   src/qdials/__init__.py  AutoLinkConfig, MgmtClient (read/delete/query)*)
(*   src/qdials/_main.py     _main: the polling loop with the two-cycle    *)
(*                           debounce (eligible / candidate / to_remove)   *)
(* The router behind the management channel is the environment: every      *)
(* response it can give (rows, usage counts, status, transport failure,    *)
(* interrupt) is a nondeterministic input drawn from the small sets below. *)
(***************************************************************************)
EXTENDS Integers, Sequences, FiniteSets, TLC

(* ------------------------------ bounds -------------------------------- *)

\* most rows the router holds in one poll of the orchestrator (each row has
\* its own identity, so never more rows than there are Identities)
MaxRows == 2

\* most rows the router holds when query() is run on its own
MaxK == 5

\* page cap of query(); the source uses 500, the model a small stand-in
MAX_BATCH == 2

\* most rows of the table of the one-poll model
MaxPollRows == 3

\* largest subscriberCount / remoteCount the router reports
MaxCount == 1

Identities == {"id1", "id2"}

Addresses == {"addr1", "addr2"}

\* the direction strings the router may send; anything but 'in' (any case)
\* is an outbound record for AutoLinkConfig
RawDirections == {"in", "IN", "out"}

Phases == {0}

(* ------------------------- python values ------------------------------ *)

None == [t |-> "None", v |-> 0]

\* a Python value that is not None
PyVal(x) == [t |-> "value", v |-> x]

Min(a, b) == IF a < b THEN a ELSE b

Range(s) == {s[i] : i \in 1..Len(s)}

(* --------------------------- AutoLinkConfig --------------------------- *)

TYPE == "org.apache.qpid.dispatch.router.config.autoLink"

ADDRESS_TYPE == "org.apache.qpid.dispatch.router.address"

ATTRIBUTES == <<"identity", "address", "direction", "phase">>

\* str.lower() on the direction strings of the model
Lower(s) == IF s = "IN" THEN "in" ELSE s

\* AutoLinkConfig.__init__(address, identity, direction, phase)
AutoLinkConfig(config) ==
    [address   |-> config.address,
     identity  |-> config.identity,
     direction |-> IF Lower(config.direction) = "in" THEN "in" ELSE "out",
     q_address |-> <<"M", config.phase, config.address>>]

(* ------------------------------ router -------------------------------- *)

\* one row of a QUERY response: the values in the order of ATTRIBUTES
WireRows == Identities \X Addresses \X RawDirections \X Phases

\* the router gives every configured record its own identity
DistinctIds(t) == \A i, j \in 1..Len(t) : i # j => t[i][1] # t[j][1]

Tables == {t \in UNION {[1..n -> WireRows] : n \in 0..MaxRows} : DistinctIds(t)}

\* the tables query() is run on by itself: any rows, repeated or not
QueryRows == {r \in WireRows : r[2] = "addr1" /\ r[3] = "in"}

QueryTables == UNION {[1..n -> QueryRows] : n \in 0..MaxK}

\* the rows [offset, offset+count) of the router's table (offset is 0-based)
Page(table, off, count) ==
    [i \in 1..(Min(Len(table), off + count) - Min(Len(table), off)) |-> table[off + i]]

\* the body of a successful READ of an address
Usages == [subscriberCount : 0..MaxCount, remoteCount : 0..MaxCount]


(* ---------------------------- responses ------------------------------- *)

\* what self._client.call(request) can do: return a reply, raise
\* ProtonException (transport failure), or be cut by KeyboardInterrupt
Reply(code, desc, body) ==
    [kind |-> "reply",
     properties |-> [statusCode |-> code, statusDescription |-> desc],
     body |-> body]

ProtonException == [kind |-> "ProtonException"]

KeyboardInterrupt == [kind |-> "KeyboardInterrupt"]

ReadResponses ==
    {Reply(200, "OK", u) : u \in Usages}
        \cup {Reply(404, "Not Found", <<>>), ProtonException, KeyboardInterrupt}

DeleteResponses ==
    {Reply(204, "No Content", <<>>), Reply(404, "Not Found", <<>>),
     ProtonException, KeyboardInterrupt}

\* the router's answer to one QUERY request: the rows the request asks for
\* under the header of the attribute names asked for, or a failure
QueryResponses(table, req) ==
    {Reply(200, "OK", [attributeNames |-> req.attributeNames,
                       results |-> Page(table, req.offset, req.count)]),
     Reply(400, "Bad Request", <<>>), ProtonException, KeyboardInterrupt}

\* what a call of a MgmtClient method does: return a value or raise
Returns(v) == [exc |-> "none", ret |-> v]

Raises(e) == [exc |-> e, ret |-> None]

(* ----------------------------- MgmtClient ----------------------------- *)

\* read, were a transport failure taken for "nobody is subscribed"
read_FailOpen(resp) ==
    IF resp.kind = "KeyboardInterrupt" THEN Raises("KeyboardInterrupt")
    ELSE IF resp.kind = "ProtonException"
         THEN Returns([subscriberCount |-> 0, remoteCount |-> 0])
    ELSE IF resp.properties.statusDescription # "OK" THEN Raises("TypeError")
    ELSE Returns(resp.body)

\* read, were its except clause a bare one that takes an interrupt for a
\* failed request
read_BareExcept(resp) ==
    IF resp.kind \in {"KeyboardInterrupt", "ProtonException"} THEN Returns(None)
    ELSE IF resp.properties.statusDescription # "OK" THEN Raises("TypeError")
    ELSE Returns(resp.body)

\* MgmtClient.read: the body on "OK"; None on a transport failure; on any
\* other status the warning's format string is applied to `type` alone
\* ("...%s...%s...%s" % type), which raises TypeError before anything is
\* logged or returned
read(resp) ==
    IF resp.kind = "KeyboardInterrupt" THEN Raises("KeyboardInterrupt")
    ELSE IF resp.kind = "ProtonException" THEN Returns(None)
    ELSE IF resp.properties.statusDescription # "OK" THEN Raises("TypeError")
    ELSE Returns(resp.body)

\* delete, were a failed deletion raised to the caller
delete_Raising(resp) ==
    IF resp.kind = "KeyboardInterrupt" THEN Raises("KeyboardInterrupt")
    ELSE IF resp.kind = "ProtonException" THEN Raises("ProtonException")
    ELSE IF resp.properties.statusCode # 204 THEN Raises("OperationFailure")
    ELSE Returns(None)

\* MgmtClient.delete: the status code when it is not 204, else None; None
\* as well on a transport failure
delete(resp) ==
    IF resp.kind = "KeyboardInterrupt" THEN Raises("KeyboardInterrupt")
    ELSE IF resp.kind = "ProtonException" THEN Returns(None)
    ELSE IF resp.properties.statusCode # 204
         THEN Returns(PyVal(resp.properties.statusCode))
         ELSE Returns(None)

\* QueryRequest, were a page asked for one row wider than the stride
QueryRequest_WidePage(type, attribute_names, off) ==
    [operation |-> "QUERY", entityType |-> type, offset |-> off,
     count |-> MAX_BATCH + 1, attributeNames |-> attribute_names]

\* the QUERY request of one page
QueryRequest(type, attribute_names, off) ==
    [operation |-> "QUERY", entityType |-> type, offset |-> off,
     count |-> MAX_BATCH, attributeNames |-> attribute_names]

\* QueryTurn, were a full page taken for the last one (<= for <)
QueryTurn_StopAtFullPage(resp) ==
    IF resp.kind = "KeyboardInterrupt" THEN "KeyboardInterrupt"
    ELSE IF resp.kind = "ProtonException" THEN "None"
    ELSE IF resp.properties.statusDescription # "OK" THEN "TypeError"
    ELSE IF Len(resp.body.results) <= MAX_BATCH THEN "done"
    ELSE "more"

\* one turn of query()'s loop on the reply to the page request:
\* "None" (transport failure), "TypeError" (the warning's format string is
\* applied to `type` alone), "more" (a full page) or "done" (a short page)
QueryTurn(resp) ==
    IF resp.kind = "KeyboardInterrupt" THEN "KeyboardInterrupt"
    ELSE IF resp.kind = "ProtonException" THEN "None"
    ELSE IF resp.properties.statusDescription # "OK" THEN "TypeError"
    ELSE IF Len(resp.body.results) < MAX_BATCH THEN "done"
    ELSE "more"

\* dict(zip(attribute_names, v)) of QueryIterator.__next__
ZipDict(names, v) ==
    [n \in {names[i] : i \in 1..Min(Len(names), Len(v))} |->
        v[CHOOSE i \in 1..Min(Len(names), Len(v)) :
            names[i] = n /\ \A j \in (i+1)..Min(Len(names), Len(v)) : names[j] # n]]

\* what QueryIterator.__next__ yields, self._values.pop() taking the LAST row
IterNext(names, vals) == ZipDict(names, vals[Len(vals)])

IterRest(vals) == SubSeq(vals, 1, Len(vals) - 1)


(* --------------------------- _main: state ----------------------------- *)

VARIABLES
    pc,                 \* where _main is: "sleep", "connect", "query", "eval",
                        \* "reconcile", "del_out"; "done" (returned after an
                        \* interrupt), "crashed" (died of an uncaught error)
    remove_outlinks,    \* args.remove_outlinks
    eligible,           \* the candidates of the last pass
    nconn,              \* management connections open
    server,             \* the rows the router holds during this poll
    offset,             \* query(): offset of the next page
    response_attr_names,\* query(): the header of the first page
    response_results,   \* query(): the rows received so far
    values,             \* results._values: the rows not yet iterated
    candidate,          \* (identity, address) seen idle in this poll
    out_links,          \* address -> identity of an 'out' autoLink
    to_remove,          \* the keys of to_remove not yet iterated
    out_id,             \* the 'out' identity found for the key just deleted
    yielded,            \* history: the maps the iterator has yielded
    sent,               \* history: the connect and the requests of this
                        \* poll (of the last poll, while sleeping), in order
    prev                \* history: the poll before the one in `sent`: how
                        \* it ended, the keys it read as idle, those it
                        \* sent an inbound DELETE for

vars == <<pc, remove_outlinks, eligible, nconn, server, offset,
          response_attr_names, response_results, values, candidate,
          out_links, to_remove, out_id, yielded, sent, prev>>

Keys == Identities \X Addresses

Running == {"sleep", "connect", "query", "eval", "reconcile", "del_out"}

(* --------------------------- history helpers -------------------------- *)

\* a usage is idle iff subscriberCount + remoteCount is zero
IdleUsage(u) == u.subscriberCount + u.remoteCount = 0

\* the keys a log shows as read with an "OK" reply of zero usage
IdleObserved(log) ==
    {log[i].key : i \in {j \in 1..Len(log) :
        log[j].op = "READ" /\ log[j].resp = "OK" /\ log[j].idle}}

\* the identities a log shows a DELETE for
Deleted(log) == {log[i].identity : i \in {j \in 1..Len(log) : log[j].op = "DELETE"}}

\* the keys a log shows an inbound DELETE for
DeletedKeys(log) ==
    {log[i].key : i \in {j \in 1..Len(log) :
        log[j].op = "DELETE" /\ log[j].dir = "in"}}

Ops(log) == {log[i].op : i \in 1..Len(log)}

\* a poll is aborted by a transport failure of its connect or of a QUERY
Aborted(log) ==
    \E i \in 1..Len(log) :
        log[i].op \in {"CONNECT", "QUERY"} /\ log[i].resp = "ProtonException"

\* what is remembered of a poll that is over
Summary(log) ==
    [status  |-> IF log = <<>> THEN "none"
                 ELSE IF Aborted(log) THEN "aborted" ELSE "completed",
     idle    |-> IdleObserved(log),
     deleted |-> DeletedKeys(log)]

\* how a reply reads in the log
RespKind(resp) ==
    IF resp.kind = "reply" THEN resp.properties.statusDescription ELSE resp.kind

(* --------------------------- _main: pieces ---------------------------- *)

\* AbortEligible, were the old set kept over a failed poll
AbortEligible_Keep(old) == old

\* lines 84 and 94: the set a failed connect or query leaves for the next poll
AbortEligible(old) == {}

\* ToRemove, were one idle observation enough
ToRemove_NoDebounce(cand, elig) == cand

\* line 132
ToRemove(cand, elig) == cand \cap elig

\* NextEligible, were the keys just deleted taken out of the next baseline
NextEligible_DropConfirmed(cand, elig) == cand \ elig

\* NextEligible, were the new observations added to the old set
NextEligible_Merge(cand, elig) == cand \cup elig

\* NextEligible, were the confirmed keys saved in place of the candidates
NextEligible_Confirmed(cand, elig) == cand \cap elig

\* line 152
NextEligible(cand, elig) == cand

\* lines 123-128: the candidate set after a usage was read for autolink
Vote(cand, autolink, addr_map) ==
    IF addr_map.subscriberCount + addr_map.remoteCount = 0
    THEN cand \cup {<<autolink.identity, autolink.address>>}
    ELSE cand

\* line 110: out_links[autolink.address] = autolink.identity
PutOutLink(links, autolink) ==
    [a \in DOMAIN links \cup {autolink.address} |->
        IF a = autolink.address THEN autolink.identity ELSE links[a]]

\* PairedOutLink, were --remove-outlinks not looked at
PairedOutLink_Ungated(flag, links, address) ==
    IF address \in DOMAIN links THEN PyVal(links[address]) ELSE None

\* lines 144-146: the 'out' identity to delete with the key, or None
PairedOutLink(flag, links, address) ==
    IF flag /\ address \in DOMAIN links THEN PyVal(links[address]) ELSE None

\* client.close(): the connection is closed, errors of closing are swallowed
Close(n) == n - 1

\* _main is over: its locals no longer exist
Exit(state) ==
    /\ pc' = state
    /\ eligible' = {}
    /\ server' = <<>>
    /\ offset' = 0
    /\ response_attr_names' = <<>>
    /\ response_results' = <<>>
    /\ values' = <<>>
    /\ candidate' = {}
    /\ out_links' = <<>>
    /\ to_remove' = {}
    /\ out_id' = None
    /\ yielded' = <<>>
    /\ UNCHANGED <<remove_outlinks, nconn, prev>>

\* the poll is over and the loop is back at time.sleep; the poll's locals
\* are dead until lines 89-102 assign them again
BackToSleep(elig) ==
    /\ pc' = "sleep"
    /\ eligible' = elig
    /\ server' = <<>>
    /\ offset' = 0
    /\ response_attr_names' = <<>>
    /\ response_results' = <<>>
    /\ values' = <<>>
    /\ candidate' = {}
    /\ out_links' = <<>>
    /\ to_remove' = {}
    /\ out_id' = None
    /\ yielded' = <<>>
    /\ UNCHANGED <<remove_outlinks, prev>>

Init ==
    /\ pc = "sleep"
    /\ remove_outlinks \in BOOLEAN
    /\ eligible = {}
    /\ nconn = 0
    /\ server = <<>>
    /\ offset = 0
    /\ response_attr_names = <<>>
    /\ response_results = <<>>
    /\ values = <<>>
    /\ candidate = {}
    /\ out_links = <<>>
    /\ to_remove = {}
    /\ out_id = None
    /\ yielded = <<>>
    /\ sent = <<>>
    /\ prev = Summary(<<>>)


(* --------------------------- _main: steps ----------------------------- *)

\* line 74: time.sleep(args.poll) returns and a new poll begins
Sleep ==
    /\ pc = "sleep"
    /\ pc' = "connect"
    /\ sent' = <<>>
    /\ prev' = Summary(sent)
    /\ UNCHANGED <<remove_outlinks, eligible, nconn, server, offset,
                   response_attr_names, response_results, values, candidate,
                   out_links, to_remove, out_id, yielded>>

\* lines 154-155: KeyboardInterrupt, raised while sleeping or between two
\* requests, ends the loop; nothing closes the client of the poll under way
Interrupt ==
    /\ pc \in Running
    /\ Exit("done")
    /\ UNCHANGED sent

\* lines 78-80: the connection is made; the router holds some rows
ConnectOk ==
    /\ pc = "connect"
    /\ nconn' = nconn + 1
    /\ server' \in Tables
    /\ pc' = "query"
    /\ offset' = 0
    /\ response_attr_names' = <<>>
    /\ response_results' = <<>>
    /\ sent' = Append(sent, [op |-> "CONNECT", resp |-> "OK"])
    /\ UNCHANGED <<remove_outlinks, eligible, values, candidate, out_links,
                   to_remove, out_id, yielded, prev>>

\* lines 81-85: MgmtClient() raises ProtonException
ConnectFail ==
    /\ pc = "connect"
    /\ sent' = Append(sent, [op |-> "CONNECT", resp |-> "ProtonException"])
    /\ UNCHANGED nconn
    /\ BackToSleep(AbortEligible(eligible))

\* lines 183-209 and 89-95: one page of client.query
QueryPage ==
    /\ pc = "query"
    /\ LET req == QueryRequest(TYPE, ATTRIBUTES, offset)
       IN \E resp \in QueryResponses(server, req) :
          LET turn == QueryTurn(resp)
              names == IF response_attr_names = <<>>
                       THEN resp.body.attributeNames ELSE response_attr_names
              rows == response_results \o resp.body.results
          IN /\ sent' = Append(sent, [op |-> "QUERY", offset |-> req.offset,
                                      count |-> req.count, resp |-> RespKind(resp)])
             /\ \/ /\ turn = "KeyboardInterrupt"
                   /\ Exit("done")
                \/ /\ turn = "TypeError"
                   /\ Exit("crashed")
                \/ /\ turn = "None"
                   /\ nconn' = Close(nconn)
                   /\ BackToSleep(AbortEligible(eligible))
                \/ /\ turn = "more"
                   /\ offset' = offset + MAX_BATCH
                   /\ response_attr_names' = names
                   /\ response_results' = rows
                   /\ UNCHANGED <<pc, remove_outlinks, eligible, nconn, server,
                                  values, candidate, out_links, to_remove,
                                  out_id, yielded, prev>>
                \/ /\ turn = "done"
                   /\ pc' = "eval"
                   /\ response_attr_names' = names
                   /\ response_results' = rows
                   /\ values' = rows
                   /\ candidate' = {}
                   /\ out_links' = <<>>
                   /\ UNCHANGED <<remove_outlinks, eligible, nconn, server,
                                  offset, to_remove, out_id, yielded, prev>>

\* lines 107-111: the next row is an 'out' autoLink
EvalOut ==
    /\ pc = "eval"
    /\ values # <<>>
    /\ LET autolink == AutoLinkConfig(IterNext(response_attr_names, values))
       IN /\ autolink.direction = "out"
          /\ out_links' = PutOutLink(out_links, autolink)
    /\ values' = IterRest(values)
    /\ yielded' = Append(yielded, IterNext(response_attr_names, values))
    /\ UNCHANGED <<pc, remove_outlinks, eligible, nconn, server, offset,
                   response_attr_names, response_results, candidate,
                   to_remove, out_id, sent, prev>>

\* EvalIn, were a key that is read idle and already eligible deleted on the
\* spot, before the remaining rows are read
EvalIn_EagerDelete ==
    /\ pc = "eval"
    /\ values # <<>>
    /\ LET autolink == AutoLinkConfig(IterNext(response_attr_names, values))
           key == <<autolink.identity, autolink.address>>
       IN /\ autolink.direction = "in"
          /\ \E resp \in ReadResponses :
             LET addr_map == read(resp)
                 rd == [op |-> "READ", type |-> ADDRESS_TYPE,
                        identity |-> autolink.q_address, key |-> key,
                        resp |-> RespKind(resp),
                        idle |-> resp.kind = "reply" /\ resp.body # <<>>
                                   /\ IdleUsage(resp.body)]
                 del == [op |-> "DELETE", type |-> TYPE, identity |-> key[1],
                         dir |-> "in", key |-> key, resp |-> "No Content",
                         ret |-> None]
                 now == /\ addr_map.exc = "none"
                        /\ addr_map.ret # None
                        /\ key \in Vote({}, autolink, addr_map.ret)
                        /\ key \in eligible
             IN /\ sent' = IF now THEN Append(Append(sent, rd), del)
                                  ELSE Append(sent, rd)
                /\ \/ /\ addr_map.exc = "KeyboardInterrupt"
                      /\ Exit("done")
                   \/ /\ addr_map.exc \notin {"none", "KeyboardInterrupt"}
                      /\ Exit("crashed")
                   \/ /\ addr_map.exc = "none"
                      /\ candidate' = IF addr_map.ret = None \/ now THEN candidate
                                      ELSE Vote(candidate, autolink, addr_map.ret)
                      /\ values' = IterRest(values)
                      /\ yielded' = Append(yielded,
                                        IterNext(response_attr_names, values))
                      /\ UNCHANGED <<pc, remove_outlinks, eligible, nconn,
                                     server, offset, response_attr_names,
                                     response_results, out_links, to_remove,
                                     out_id, prev>>

\* lines 107-128: the next row is an 'in' autoLink and its usage is read
EvalIn ==
    /\ pc = "eval"
    /\ values # <<>>
    /\ LET autolink == AutoLinkConfig(IterNext(response_attr_names, values))
       IN /\ autolink.direction = "in"
          /\ \E resp \in ReadResponses :
             LET addr_map == read(resp)
             IN /\ sent' = Append(sent,
                        [op |-> "READ", type |-> ADDRESS_TYPE,
                         identity |-> autolink.q_address,
                         key |-> <<autolink.identity, autolink.address>>,
                         resp |-> RespKind(resp),
                         idle |-> resp.kind = "reply" /\ resp.body # <<>>
                                    /\ IdleUsage(resp.body)])
                /\ \/ /\ addr_map.exc = "KeyboardInterrupt"
                      /\ Exit("done")
                   \/ /\ addr_map.exc \notin {"none", "KeyboardInterrupt"}
                      /\ Exit("crashed")
                   \/ /\ addr_map.exc = "none"
                      /\ candidate' = IF addr_map.ret = None THEN candidate
                                      ELSE Vote(candidate, autolink, addr_map.ret)
                      /\ values' = IterRest(values)
                      /\ yielded' = Append(yielded,
                                        IterNext(response_attr_names, values))
                      /\ UNCHANGED <<pc, remove_outlinks, eligible, nconn,
                                     server, offset, response_attr_names,
                                     response_results, out_links, to_remove,
                                     out_id, prev>>

\* line 132: the iterator is exhausted
EvalDone ==
    /\ pc = "eval"
    /\ values = <<>>
    /\ to_remove' = ToRemove(candidate, eligible)
    /\ pc' = "reconcile"
    /\ UNCHANGED <<remove_outlinks, eligible, nconn, server, offset,
                   response_attr_names, response_results, values, candidate,
                   out_links, out_id, yielded, sent, prev>>

\* lines 136-146: the next key of to_remove (a set: in any order)
DeleteIn ==
    /\ pc = "reconcile"
    /\ \E key \in to_remove : \E resp \in DeleteResponses :
       LET r == delete(resp)
           paired == PairedOutLink(remove_outlinks, out_links, key[2])
       IN /\ sent' = Append(sent, [op |-> "DELETE", type |-> TYPE,
                                   identity |-> key[1], dir |-> "in",
                                   key |-> key, resp |-> RespKind(resp),
                                   ret |-> r.ret])
          /\ \/ /\ r.exc = "KeyboardInterrupt"
                /\ Exit("done")
             \/ /\ r.exc \notin {"none", "KeyboardInterrupt"}
                /\ Exit("crashed")
             \/ /\ r.exc = "none"
                /\ to_remove' = to_remove \ {key}
                /\ out_id' = paired
                /\ pc' = IF paired = None THEN "reconcile" ELSE "del_out"
                /\ UNCHANGED <<remove_outlinks, eligible, nconn, server, offset,
                               response_attr_names, response_results, values,
                               candidate, out_links, yielded, prev>>

\* lines 147-149: the 'out' autoLink of the same address
DeleteOut ==
    /\ pc = "del_out"
    /\ \E resp \in DeleteResponses :
       LET r == delete(resp)
       IN /\ sent' = Append(sent, [op |-> "DELETE", type |-> TYPE,
                                   identity |-> out_id.v, dir |-> "out",
                                   key |-> <<>>, resp |-> RespKind(resp),
                                   ret |-> r.ret])
          /\ \/ /\ r.exc = "KeyboardInterrupt"
                /\ Exit("done")
             \/ /\ r.exc \notin {"none", "KeyboardInterrupt"}
                /\ Exit("crashed")
             \/ /\ r.exc = "none"
                /\ pc' = "reconcile"
                /\ out_id' = None
                /\ UNCHANGED <<remove_outlinks, eligible, nconn, server, offset,
                               response_attr_names, response_results, values,
                               candidate, out_links, to_remove, yielded, prev>>

\* lines 151-152: every key was iterated
CycleEnd ==
    /\ pc = "reconcile"
    /\ to_remove = {}
    /\ nconn' = Close(nconn)
    /\ UNCHANGED sent
    /\ BackToSleep(NextEligible(candidate, eligible))

Next ==
    \/ Sleep
    \/ Interrupt
    \/ ConnectOk
    \/ ConnectFail
    \/ QueryPage
    \/ EvalOut
    \/ EvalIn
    \/ EvalDone
    \/ DeleteIn
    \/ DeleteOut
    \/ CycleEnd

Spec == Init /\ [][Next]_vars


(* ---------------------- query() run on its own ------------------------ *)

\* a caller that only iterates the result: `for config in results`
IterStep ==
    /\ pc = "eval"
    /\ values # <<>>
    /\ yielded' = Append(yielded, IterNext(response_attr_names, values))
    /\ values' = IterRest(values)
    /\ UNCHANGED <<pc, remove_outlinks, eligible, nconn, server, offset,
                   response_attr_names, response_results, candidate,
                   out_links, to_remove, out_id, sent, prev>>

\* a connected client about to query a router that holds any table
InitQuery ==
    /\ pc = "query"
    /\ remove_outlinks = FALSE
    /\ eligible = {}
    /\ nconn = 1
    /\ server \in QueryTables
    /\ offset = 0
    /\ response_attr_names = <<>>
    /\ response_results = <<>>
    /\ values = <<>>
    /\ candidate = {}
    /\ out_links = <<>>
    /\ to_remove = {}
    /\ out_id = None
    /\ yielded = <<>>
    /\ sent = <<[op |-> "CONNECT", resp |-> "OK"]>>
    /\ prev = Summary(<<>>)

NextQuery ==
    \/ QueryPage
    \/ IterStep

SpecQuery == InitQuery /\ [][NextQuery]_vars


(* ------------------- one poll over a shared address ------------------- *)

\* the rows of a router on which up to three autoLinks, 'in' or 'out', are
\* configured, several of them for one address
PollIdentities == Identities \cup {"id3"}

PollRows == PollIdentities \X Addresses \X {"in", "out"} \X Phases

PollTables ==
    {t \in UNION {[1..n -> PollRows] : n \in 0..MaxPollRows} : DistinctIds(t)}

\* the inbound keys of a table
InboundKeys(table) ==
    {<<table[i][1], table[i][2]>> : i \in {j \in 1..Len(table) : Lower(table[j][3]) = "in"}}

\* the loop is in its second poll, connected and about to query: the first
\* poll ran to its end, read the keys of `eligible` idle and deleted none
InitPoll ==
    /\ pc = "query"
    /\ remove_outlinks \in BOOLEAN
    /\ server \in PollTables
    /\ eligible \in SUBSET InboundKeys(server)
    /\ nconn = 1
    /\ offset = 0
    /\ response_attr_names = <<>>
    /\ response_results = <<>>
    /\ values = <<>>
    /\ candidate = {}
    /\ out_links = <<>>
    /\ to_remove = {}
    /\ out_id = None
    /\ yielded = <<>>
    /\ sent = <<[op |-> "CONNECT", resp |-> "OK"]>>
    /\ prev = [status |-> "completed", idle |-> eligible, deleted |-> {}]

NextPoll ==
    \/ QueryPage
    \/ EvalOut
    \/ EvalIn
    \/ EvalDone
    \/ DeleteIn
    \/ DeleteOut
    \/ CycleEnd

SpecPoll == InitPoll /\ [][NextPoll]_vars

\* lines 101-128 as a function of the rows the iterator holds and of the
\* router's answer to the usage READ of each key: the candidate set and
\* the out_links map when the for loop ends
RECURSIVE Evaluate(_, _, _, _)
Evaluate(names, vals, answer, acc) ==
    IF vals = <<>> THEN acc
    ELSE LET autolink == AutoLinkConfig(IterNext(names, vals))
             addr_map == read(answer[<<autolink.identity, autolink.address>>])
         IN Evaluate(names, IterRest(vals), answer,
                IF autolink.direction = "out"
                THEN [acc EXCEPT !.out_links = PutOutLink(@, autolink)]
                ELSE IF addr_map.ret = None THEN acc
                ELSE [acc EXCEPT !.candidate = Vote(@, autolink, addr_map.ret)])

\* lines 101-152 as a function: the identities a poll sends a DELETE for
\* and the eligibility set it leaves behind
PollOutcome(names, rows, answer, elig, flag) ==
    LET ev == Evaluate(names, rows, answer, [candidate |-> {}, out_links |-> <<>>])
        confirmed == ToRemove(ev.candidate, elig)
        paired == {k \in confirmed : PairedOutLink(flag, ev.out_links, k[2]) # None}
    IN [deletes  |-> {k[1] : k \in confirmed}
                       \cup {PairedOutLink(flag, ev.out_links, k[2]).v : k \in paired},
        eligible |-> NextEligible(ev.candidate, elig)]


(* ============================== claims ================================ *)

Last(log) == log[Len(log)]

\* the keys a log shows a READ cut by a transport failure for
LostReads(log) ==
    {log[i].key : i \in {j \in 1..Len(log) :
        log[j].op = "READ" /\ log[j].resp = "ProtonException"}}

\* the positions of the DELETEs of a log that were not confirmed
FailedDeletes(log) ==
    {i \in 1..Len(log) :
        log[i].op = "DELETE" /\ log[i].resp \in {"Not Found", "ProtonException"}}

\* the row as the map the claim speaks of: attribute name -> value
RowDict(row) ==
    [identity |-> row[1], address |-> row[2], direction |-> row[3], phase |-> row[4]]

Count(seq, x) == Cardinality({i \in 1..Len(seq) : seq[i] = x})

\* the identities of the 'out' records of a table
OutboundIds(table) ==
    {table[i][1] : i \in {j \in 1..Len(table) : Lower(table[j][3]) # "in"}}

\* C1 (debounce soundness): every inbound DELETE of a poll is for a key
\* read idle ("OK", subscriberCount + remoteCount = 0) in this poll and in
\* the poll before it, both having connected and queried without a
\* transport failure; and a poll that runs to its end has sent a DELETE for
\* every such key.  A key idle in one of the two polls only gets none.
C1_DebounceSoundness ==
    /\ DeletedKeys(sent) \subseteq (prev.idle \cap IdleObserved(sent))
    /\ (prev.status # "completed" \/ Aborted(sent)) => DeletedKeys(sent) = {}
    /\ (pc = "sleep" /\ ~Aborted(sent))
           => DeletedKeys(sent) = prev.idle \cap IdleObserved(sent)

\* a poll ended having deleted one key and having left alone another key
\* that it was the first to read as idle
C1_Witness ==
    /\ pc = "sleep"
    /\ DeletedKeys(sent) # {}
    /\ IdleObserved(sent) \ prev.idle # {}

\* C2 (fail-closed): a poll whose connect or QUERY page met a transport
\* failure sends no READ and no DELETE and leaves the eligibility set
\* empty; the poll after an aborted poll sends no DELETE.
C2_FailClosed ==
    /\ Aborted(sent) => /\ Ops(sent) \cap {"READ", "DELETE"} = {}
                        /\ pc \in {"sleep", "done"}
                        /\ pc = "sleep" => eligible = {}
    /\ prev.status = "aborted" => "DELETE" \notin Ops(sent)

\* the poll after an aborted one ran to its end, read keys as idle and
\* deleted nothing
C2_Witness ==
    /\ pc = "sleep"
    /\ prev.status = "aborted"
    /\ ~Aborted(sent)
    /\ IdleObserved(sent) # {}

\* C3 (pagination completeness): once query() has returned its iterator
\* and the iterator is exhausted, every row of the router's table was
\* yielded exactly as often as the table holds it, as the map from the
\* attribute names to the row's values; before that, the rows yielded and
\* the rows still to come make up the table.
C3_PaginationComplete ==
    pc = "eval" =>
        /\ \A r \in QueryRows :
              Count(yielded, RowDict(r)) + Count(values, r) = Count(server, r)
        /\ Len(yielded) + Len(values) = Len(server)
        /\ \A i \in 1..Len(yielded) : \E r \in QueryRows : yielded[i] = RowDict(r)

\* a table of exactly two full pages was iterated to its end
C3_Witness ==
    /\ pc = "eval"
    /\ values = <<>>
    /\ Len(server) = 2 * MAX_BATCH
    /\ Len(yielded) = Len(server)

\* C4 (paired deletion gating): a DELETE aimed at the identity of an 'out'
\* record of this poll's query is sent only with --remove-outlinks set,
\* after the inbound DELETE of a key confirmed in this poll whose address
\* is that of the 'out' record; without the option no 'out' record is
\* aimed at.
C4_PairedDeletionGating ==
    pc \in {"reconcile", "del_out"} =>
        /\ \A i \in 1..Len(sent) :
              (sent[i].op = "DELETE" /\ sent[i].identity \in OutboundIds(server))
              => /\ remove_outlinks
                 /\ \E k \in DeletedKeys(SubSeq(sent, 1, i - 1)) :
                       /\ k \in prev.idle \cap IdleObserved(sent)
                       /\ \E j \in 1..Len(server) :
                             /\ server[j][1] = sent[i].identity
                             /\ server[j][2] = k[2]
                             /\ Lower(server[j][3]) # "in"
        /\ ~remove_outlinks => Deleted(sent) \cap OutboundIds(server) = {}

\* an 'out' record was sent a DELETE
C4_Witness ==
    /\ pc = "reconcile"
    /\ \E i \in 1..Len(sent) :
          sent[i].op = "DELETE" /\ sent[i].identity \in OutboundIds(server)

\* C5 (deletion failures are independent): a DELETE that is not confirmed
\* (a status other than 204, a transport failure) never ends the process;
\* the keys of the confirmed set not yet sent a DELETE are still to be
\* iterated; and the poll ends as a successful one does: every confirmed
\* key sent a DELETE, the connection closed, the eligibility set replaced
\* by the keys read idle.
C5_DeleteFailuresIndependent ==
    /\ (sent # <<>> /\ Last(sent).op = "DELETE") => pc # "crashed"
    /\ (pc \in {"reconcile", "del_out"} /\ FailedDeletes(sent) # {})
           => to_remove \cup DeletedKeys(sent) = prev.idle \cap IdleObserved(sent)
    /\ (pc = "sleep" /\ FailedDeletes(sent) # {})
           => /\ DeletedKeys(sent) = prev.idle \cap IdleObserved(sent)
              /\ nconn = 0
              /\ eligible = IdleObserved(sent)

\* a poll ended after two inbound DELETEs, the first of them not confirmed
C5_Witness ==
    /\ pc = "sleep"
    /\ \E i \in FailedDeletes(sent) : \E j \in (i+1)..Len(sent) :
          /\ sent[i].dir = "in"
          /\ sent[j].op = "DELETE" /\ sent[j].dir = "in"

\* C6 (a failed READ is scoped to its record): after a READ answered with
\* a non-success status, or cut by a transport failure, the poll goes on
\* evaluating (or is interrupted later); the process has not died.
C6_ReadFailureScoped ==
    (sent # <<>> /\ Last(sent).op = "READ"
        /\ Last(sent).resp \in {"Not Found", "ProtonException"})
    => pc \in {"eval", "done"}

\* C7 (a non-success QUERY page aborts the poll): after a QUERY page
\* answered with a non-success status the loop is back at its sleep (or
\* interrupted there) with no READ or DELETE sent, the eligibility set
\* empty and the connection closed.
C7_QueryStatusAborts ==
    (sent # <<>> /\ Last(sent).op = "QUERY" /\ Last(sent).resp = "Bad Request")
    => /\ pc \in {"sleep", "done"}
       /\ pc = "sleep" => eligible = {}
       /\ nconn = 0
       /\ Ops(sent) \cap {"READ", "DELETE"} = {}

\* C8 as stated: a poll in which a usage READ met a transport failure
\* leaves the eligibility set empty.
C8_ReadTransportFailureEmpties ==
    (pc = "sleep" /\ LostReads(sent) # {}) => eligible = {}

\* C8 as amended: a transport failure of a usage READ takes only that
\* record's key out of the eligibility set carried into the next poll; the
\* set is the keys the poll read as idle, like after any poll that ran to
\* its end.
C8_ReadTransportFailureScoped ==
    pc = "sleep" =>
        /\ LostReads(sent) \cap eligible = {}
        /\ LostReads(sent) # {} => eligible = IdleObserved(sent)

\* a poll lost one READ to the transport and still left a key eligible
C8_Witness ==
    /\ pc = "sleep"
    /\ LostReads(sent) # {}
    /\ eligible # {}

\* C9 (connection scoping): never more than one connection is open, and
\* none is while the loop sleeps or after _main is over.
C9_ConnectionScoped ==
    /\ nconn <= 1
    /\ pc \in {"sleep", "done", "crashed"} => nconn = 0

\* C10 as stated: a key sent a DELETE in the poll before gets none in this
\* poll although it is read idle again.
C10_RestartAfterDeletion ==
    \A k \in prev.deleted \cap IdleObserved(sent) : k \notin DeletedKeys(sent)

\* C10 as amended: a key sent a DELETE in the poll before and read idle
\* again in this poll is sent a DELETE again by the time this poll ends;
\* the count starts over only for a key this poll did not read as idle.
C10_DeletedAgainWhileIdle ==
    /\ (pc = "sleep" /\ ~Aborted(sent))
           => (prev.deleted \cap IdleObserved(sent)) \subseteq DeletedKeys(sent)
    /\ pc = "sleep" => (prev.deleted \ IdleObserved(sent)) \cap eligible = {}

\* a key deleted in the poll before was read idle and deleted again
C10_Witness ==
    /\ pc = "sleep"
    /\ prev.deleted \cap IdleObserved(sent) \cap DeletedKeys(sent) # {}

\* C13 (the eligibility set is replaced, never merged): while the loop
\* sleeps the eligibility set is exactly the keys the poll just over read
\* as idle if that poll ran to its end, and empty if it was aborted or no
\* poll has run; so it holds no key of an older poll alone, and it is not
\* the confirmed subset.
C13_EligibleReplaced ==
    pc = "sleep" =>
        eligible = IF sent = <<>> \/ Aborted(sent) THEN {} ELSE IdleObserved(sent)

\* a poll ended that dropped a key of the poll before, and kept as eligible
\* a key it did not delete
C13_Witness ==
    /\ pc = "sleep"
    /\ prev.idle \ eligible # {}
    /\ eligible \ DeletedKeys(sent) # {}
    /\ DeletedKeys(sent) # {}

IsQuery(e) == e.op = "QUERY"

\* the QUERY requests of a log, in the order sent
Queries(log) == SelectSeq(log, IsQuery)

\* C14 (pagination protocol): every QUERY of one call of query() asks for
\* MAX_BATCH rows, the i-th at offset (i-1)*MAX_BATCH; none is sent past a
\* page shorter than MAX_BATCH, and a call that returned its iterator from
\* a table of K rows sent exactly K div MAX_BATCH + 1 of them.
C14_PaginationProtocol ==
    LET q == Queries(sent)
    IN /\ \A i \in 1..Len(q) :
             /\ q[i].count = MAX_BATCH
             /\ q[i].offset = (i - 1) * MAX_BATCH
             /\ pc \in {"query", "eval"} => q[i].offset <= Len(server)
       /\ \A i \in 1..(Len(q) - 1) : q[i].resp = "OK"
       /\ pc = "eval" => Len(q) = (Len(server) \div MAX_BATCH) + 1

\* a table of exactly two full pages took a third, empty page to end
C14_Witness ==
    /\ pc = "eval"
    /\ Len(server) = 2 * MAX_BATCH
    /\ Len(Queries(sent)) = 3
    /\ Last(sent).offset = 2 * MAX_BATCH

\* the phase of a poll a request belongs to
Rank(e) ==
    CASE e.op = "CONNECT" -> 0
      [] e.op = "QUERY" -> 1
      [] e.op = "READ" -> 2
      [] e.op = "DELETE" -> 3

IsRead(e) == e.op = "READ"

IsDelete(e) == e.op = "DELETE"

\* C15 (one-directional data flow): within one poll every QUERY request is
\* sent before every READ request, and every READ before every DELETE.
C15_OneDirectionalFlow ==
    \A i \in 1..Len(sent) : \A j \in i..Len(sent) : Rank(sent[i]) <= Rank(sent[j])

\* a poll of two pages, two READs and two DELETEs
C15_Witness ==
    /\ Len(Queries(sent)) >= 2
    /\ Len(SelectSeq(sent, IsRead)) >= 2
    /\ Len(SelectSeq(sent, IsDelete)) >= 2

\* C17 (cooperative cancellation): once _main has returned on an interrupt
\* nothing happens any more; a step that ends the loop on an interrupt
\* leaves the request log as it was (the interrupt came between two calls)
\* or adds only the call the interrupt cut; and a call cut by an interrupt
\* always ends the loop, so no QUERY, READ or DELETE follows it.
C17_CooperativeCancellation ==
    [][/\ pc # "done"
       /\ pc' = "done" =>
             \/ sent' = sent
             \/ /\ Len(sent') = Len(sent) + 1
                /\ SubSeq(sent', 1, Len(sent)) = sent
                /\ Last(sent').resp = "KeyboardInterrupt"
       /\ (sent' # sent /\ sent' # <<>> /\ Last(sent').resp = "KeyboardInterrupt")
             => pc' = "done"]_vars

\* the loop ended on an interrupt that cut the second DELETE of a poll
C17_Witness ==
    /\ pc = "done"
    /\ Len(SelectSeq(sent, IsDelete)) >= 2
    /\ Last(sent).op = "DELETE"
    /\ Last(sent).resp = "KeyboardInterrupt"

\* C18 (delete's outcome tells a confirmed deletion from any other): for
\* every DELETE answered with a status other than 204, and for every
\* DELETE cut by a transport failure, what delete() returned differs from
\* what it returns on a 204.
C18_DeleteOutcomeDistinguishes ==
    \A i \in 1..Len(sent) :
        (sent[i].op = "DELETE" /\ sent[i].resp \in {"Not Found", "ProtonException"})
        => sent[i].ret # delete(Reply(204, "No Content", <<>>)).ret

\* C19 (a persistently idle binding is removed): when two polls in a row
\* run to their end and an inbound record is read idle in both, the second
\* has sent a DELETE for it by the time it ends; this holds for every such
\* pair of polls, so the DELETE is sent again by each following poll that
\* still reads the record idle, whatever became of the DELETE before.
C19_PersistentlyIdleDeleted ==
    (pc = "sleep" /\ prev.status = "completed" /\ sent # <<>> /\ ~Aborted(sent))
    => \A k \in prev.idle \cap IdleObserved(sent) :
          \E i \in 1..Len(sent) :
              /\ sent[i].op = "DELETE"
              /\ sent[i].type = TYPE
              /\ sent[i].identity = k[1]

\* a record whose DELETE was sent in the poll before is read idle again
\* and sent a DELETE again, which fails in its turn
C19_Witness ==
    /\ pc = "sleep"
    /\ prev.status = "completed"
    /\ \E k \in prev.deleted \cap prev.idle \cap IdleObserved(sent) :
          \E i \in 1..Len(sent) :
              /\ sent[i].op = "DELETE"
              /\ sent[i].identity = k[1]
              /\ sent[i].resp = "ProtonException"

\* the rows of a table in another order
Permute(table, p) == [i \in 1..Len(table) |-> table[p[i]]]

\* the answer the router gave to the usage READ of each inbound key, as
\* far as the log of a poll tells it
Answers(log, table) ==
    [k \in InboundKeys(table) |->
        LET i == CHOOSE j \in 1..Len(log) : log[j].op = "READ" /\ log[j].key = k
        IN IF log[i].resp = "OK"
           THEN Reply(200, "OK", [subscriberCount |-> IF log[i].idle THEN 0 ELSE 1,
                                  remoteCount |-> 0])
           ELSE ProtonException]

\* what the poll that is now over has done
PollDone == [deletes |-> Deleted(sent), eligible |-> NextEligible(candidate, eligible)]

\* the function PollOutcome is the poll of the step machine
PollOutcomeIsThePoll ==
    (pc = "reconcile" /\ to_remove = {})
    => PollDone = PollOutcome(response_attr_names, server, Answers(sent, server),
                              eligible, remove_outlinks)

\* C11 (order independence): when a poll has sent its last DELETE, the
\* identities it sent a DELETE for and the eligibility set it leaves are
\* those of a poll over the same rows in any other order, the usage
\* answers being the same, also when 'out' rows share an address.
C11_OrderIndependent ==
    (pc = "reconcile" /\ to_remove = {})
    => \A p \in Permutations(1..Len(server)) :
          PollOutcome(response_attr_names, Permute(server, p),
                      Answers(sent, server), eligible, remove_outlinks) = PollDone

\* C16 (no repeated operation): within one poll no identity, inbound or
\* paired outbound, is the target of more than one DELETE request.
C16_NoRepeatedDelete ==
    \A i, j \in 1..Len(sent) :
        (i # j /\ sent[i].op = "DELETE" /\ sent[j].op = "DELETE")
        => sent[i].identity # sent[j].identity

\* the keys a log shows a READ for that yielded no usage: answered with a
\* non-success status or cut by a transport failure
AbsentReads(log) ==
    {log[i].key : i \in {j \in 1..Len(log) :
        log[j].op = "READ" /\ log[j].resp \in {"Not Found", "ProtonException"}}}

\* C12 (absent usage is neither idle nor an error): a poll in which the
\* usage READ of a record yielded absent goes on, the process alive; the
\* record's key is not among the poll's idle observations, gets no DELETE
\* in this poll, and is not in the eligibility set the poll leaves, so it
\* gets none in the next poll either.
C12_AbsentUsageSkipped ==
    AbsentReads(sent) # {} =>
        /\ pc # "crashed"
        /\ AbsentReads(sent) \cap IdleObserved(sent) = {}
        /\ AbsentReads(sent) \cap DeletedKeys(sent) = {}
        /\ pc = "sleep" => AbsentReads(sent) \cap eligible = {}

====
